---- MODULE Spec2Model ----
(***************************************************************************)
(* Model of openmdao/core/problem.py: the Problem orchestrator, its        *)
(* FakeComm fallback, the setup() pipeline and setup_vector().             *)
(*                                                                         *)
(* Problem.setup() and Problem.setup_vector() are modelled statement by    *)
(* statement: every call they make on the root System, on the Assembler    *)
(* and on the Vector class is one step.  The bodies of those callees live  *)
(* outside problem.py; they are modelled from the design description       *)
(* (sections 4.1 - 4.6) and are kept apart from the orchestration below.   *)
(***************************************************************************)
EXTENDS Integers, Sequences, FiniteSets, TLC

VARIABLES
    decl,         \* the declarations of the system tree (root and its subsystems)
    ctor,         \* the arguments Problem.__init__ was given
    mpi,          \* whether "from mpi4py import MPI" succeeds, and COMM_WORLD
    comm,         \* Problem.comm
    asmComm,      \* the comm handed to AssemblerClass(comm)
    VectorClass,  \* Problem._VectorClass
    root,         \* the attributes of Problem.root that problem.py reads
    asm,          \* the attributes of Problem._assembler
    asmCalls,     \* how often each Assembler phase has been invoked
    rootVectors,  \* what root._setup_vector has been handed, by vec_name
    pc,           \* the statement of setup()/setup_vector() that runs next
    op,           \* the driver-facing call that runs (or ran last)
    vecArgs,      \* the arguments of the running setup_vector call
    vectors,      \* the local dict "vectors" of setup_vector, in creation order
    log,          \* the calls made so far by the running driver-facing call
    outcome,      \* how the last driver-facing call ended
    nCalls,       \* number of driver-facing calls made
    nSetupsDone,  \* number of setup() calls that returned
    firstSetup    \* the schema the first completed setup() left behind

vars == <<decl, ctor, mpi, comm, asmComm, VectorClass, root, asm, asmCalls,
          rootVectors, pc, op, vecArgs, vectors, log, outcome, nCalls,
          nSetupsDone, firstSetup>>

(***************************************************************************)
(* Bounds of the model.                                                    *)
(***************************************************************************)
MaxProcs == 3        \* largest communicator size tried
MaxChildren == 3     \* largest number of subsystems of the root
MaxCalls == 2        \* driver-facing calls per behaviour

Roles == {"input", "output"}
None == "None"
VecNames == {None, "linear"}
DefaultVector == "DefaultVector"
VectorClasses == {DefaultVector, "PetscVector"}
AsmPhases == {"_setup_variables", "_setup_connections", "_setup_input_indices"}


(***************************************************************************)
(* The system tree.  The root has decl.nsub subsystems; subsystem i        *)
(* declares one output <<"x", i>> and one input <<"y", i>>.  decl.parallel *)
(* says whether the root splits its processes among the subsystems, and    *)
(* decl.conns is the set of declared connections <<source, target>>.       *)
(***************************************************************************)
X(i) == <<"x", i>>
Y(i) == <<"y", i>>
Z == <<"z", 0>>          \* a name no subsystem declares

Owner(name) == name[2]

VarSize(name) ==
    IF name[1] = "x" THEN name[2] ELSE (name[2] % decl.nsub) + 1

\* the output whose size matches input y_i
Feeder(i, n) == X((i % n) + 1)

ConnChoices(n) ==
    { {},
      {<<Feeder(1, n), Y(1)>>},
      {<<Feeder(i, n), Y(i)>> : i \in 1..n},
      {<<Z, Y(1)>>},
      {<<X(1), Y(n)>>, <<X(n), Y(n)>>} }

Decls ==
    UNION { { [nsub |-> n, parallel |-> p, conns |-> c] :
                p \in BOOLEAN, c \in ConnChoices(n) } : n \in 1..MaxChildren }

(***************************************************************************)
(* FakeComm and Problem.__init__                                           *)
(***************************************************************************)
FakeCommOffByOne == [kind |-> "FakeComm", rank |-> 1, size |-> 1]

FakeComm == [kind |-> "FakeComm", rank |-> 0, size |-> 1]

\* the communicators a caller (or mpi4py) can hold: 0 <= rank < size
MpiComms(kind) ==
    { [kind |-> kind, rank |-> r, size |-> s] : s \in 1..MaxProcs, r \in 0..(MaxProcs - 1) }

RealComms(kind) == { c \in MpiComms(kind) : c.rank < c.size }

\* comm=None, the default of Problem.__init__
NoComm == [kind |-> "None", rank |-> 0, size |-> 0]

NoMpi == [available |-> FALSE, world |-> FakeComm]

\* lines 42-47: the comm the Problem ends up with
InitComm(commArg, m) ==
    IF commArg = NoComm
      THEN IF m.available THEN m.world ELSE FakeComm
      ELSE commArg

\* lines 50-51
InitVectorClass(arg) == IF arg = None THEN DefaultVector ELSE arg

(***************************************************************************)
(* System: the phases of the root that setup() drives (sections 4.1-4.4).  *)
(***************************************************************************)
Min(a, b) == IF a < b THEN a ELSE b

SubRangeDropsRemainder(r, k, i) ==
    LET q == (r[2] - r[1]) \div k
    IN  <<r[1] + (i - 1) * q, r[1] + i * q>>

\* 4.1: the i-th of k contiguous near-equal parts of range r
SubRange(r, k, i) ==
    LET L == r[2] - r[1]
        q == L \div k
        m == L % k
        lo == r[1] + (i - 1) * q + Min(i - 1, m)
    IN  <<lo, lo + q + (IF i <= m THEN 1 ELSE 0)>>

\* 4.1: root._setup_processors(path, comm, global_dict, depth, assembler, proc_range)
SystemSetupProcessors(path, c, global_dict, depth, proc_range) ==
    [ path |-> path, depth |-> depth, global_dict |-> global_dict,
      proc_range |-> proc_range,
      sub_ranges |-> [i \in 1..decl.nsub |->
                        IF decl.parallel THEN SubRange(proc_range, decl.nsub, i)
                                         ELSE proc_range] ]

InRange(rank, r) == r[1] <= rank /\ rank < r[2]

\* pre-order discovery, subsystems in declaration order
AllNames(t) == [i \in 1..decl.nsub |-> IF t = "output" THEN X(i) ELSE Y(i)]

\* 4.2: root._setup_variables()
SystemSetupVariables(sub_ranges) ==
    LET Resident(name) == InRange(comm.rank, sub_ranges[Owner(name)])
        mine == [t \in Roles |-> SelectSeq(AllNames(t), Resident)]
    IN  [ allprocs_names |-> [t \in Roles |-> AllNames(t)],
          myproc_names |-> mine,
          myproc_metadata |-> [t \in Roles |->
                                 [j \in 1..Len(mine[t]) |-> VarSize(mine[t][j])]] ]

IndexIn(seq, x) == CHOOSE j \in 1..Len(seq) : seq[j] = x

\* 4.3: root._setup_variable_indices(counters)
SystemSetupVariableIndices(counters, allprocs_names, myproc_names) ==
    [ allprocs_range |-> [t \in Roles |->
                            <<counters[t], counters[t] + Len(allprocs_names[t])>>],
      myproc_indices |-> [t \in Roles |->
                            [j \in 1..Len(myproc_names[t]) |->
                               counters[t] + IndexIn(allprocs_names[t], myproc_names[t][j]) - 1]] ]

Range(seq) == {seq[j] : j \in 1..Len(seq)}

\* 4.4: the configuration errors of connection resolution
ConnectionError(conns, allprocs_names) ==
    \/ \E c \in conns : c[1] \notin Range(allprocs_names["output"])
    \/ \E c \in conns : c[2] \notin Range(allprocs_names["input"])
    \/ \E c, d \in conns : c[2] = d[2] /\ c[1] # d[1]
    \/ \E c \in conns : VarSize(c[1]) # VarSize(c[2])

PosOf(t, name, allprocs_names, allprocs_range) ==
    allprocs_range[t][1] + IndexIn(allprocs_names[t], name) - 1

\* 4.4: root._setup_connections(): local input position -> feeding output position
SystemSetupConnections(conns, r) ==
    { <<PosOf("input", c[2], r.allprocs_names, r.allprocs_range),
        PosOf("output", c[1], r.allprocs_names, r.allprocs_range)>> :
        c \in { d \in conns : d[2] \in Range(r.myproc_names["input"]) } }

(***************************************************************************)
(* Assembler: the three populating phases (section 4.5).                   *)
(***************************************************************************)
\* 4.5: assembler._setup_variables(sizes, variable_metadata, variable_indices)
AssemblerSetupVariables(sizes, variable_metadata, variable_indices) ==
    [ nvars |-> sizes,
      local |-> [metadata |-> variable_metadata, indices |-> variable_indices],
      variable_sizes |-> [t \in Roles |->
          [j \in 1..Min(sizes[t], decl.nsub) |-> VarSize(AllNames(t)[j])]],
      variable_set_indices |-> [t \in Roles |->
          [j \in 1..Min(sizes[t], decl.nsub) |-> Owner(AllNames(t)[j])]] ]

\* 4.5: assembler._setup_connections(connections, variable_allprocs_names)
AssemblerSetupConnections(connections, variable_allprocs_names) ==
    connections \cup
    { <<IndexIn(variable_allprocs_names["input"], c[2]) - 1,
        IndexIn(variable_allprocs_names["output"], c[1]) - 1>> :
        c \in { d \in decl.conns : /\ d[2] \in Range(variable_allprocs_names["input"])
                                   /\ d[1] \in Range(variable_allprocs_names["output"]) } }

RECURSIVE SumTo(_, _)
SumTo(sizes, n) == IF n <= 0 THEN 0 ELSE sizes[n] + SumTo(sizes, n - 1)

\* the offset of the variable at 0-based position pos in a flat buffer
Offset(sizes, pos) == SumTo(sizes, Min(pos, Len(sizes)))

\* 4.5: assembler._setup_input_indices(input_metadata, var_indices):
\* for every local input the (offset, length) of its source in the global
\* output buffer; an unconnected input gets the empty span
AssemblerSetupInputIndices(a, input_metadata, var_indices) ==
    [ j \in 1..Len(var_indices) |->
        LET src == { c[2] : c \in { d \in a.connections : d[1] = var_indices[j] } }
        IN  IF src = {} THEN <<0, 0>>
            ELSE LET s == CHOOSE s \in src : TRUE
                 IN  <<Offset(a.variable_sizes["output"], s), input_metadata[j]>> ]

AsmEmpty ==
    [ nvars |-> [t \in Roles |-> 0],
      local |-> [metadata |-> [t \in Roles |-> <<>>], indices |-> [t \in Roles |-> <<>>]],
      variable_sizes |-> [t \in Roles |-> <<>>],
      variable_set_indices |-> [t \in Roles |-> <<>>],
      connections |-> {},
      input_indices |-> <<>> ]

RootEmpty ==
    [ path |-> "", depth |-> 0, global_dict |-> {},
      proc_range |-> <<0, 1>>,
      sub_ranges |-> <<>>,
      allprocs_names |-> [t \in Roles |-> <<>>],
      myproc_names |-> [t \in Roles |-> <<>>],
      myproc_metadata |-> [t \in Roles |-> <<>>],
      allprocs_range |-> [t \in Roles |-> <<0, 0>>],
      myproc_indices |-> [t \in Roles |-> <<>>],
      connections_indices |-> {} ]


(***************************************************************************)
(* Problem.setup(): the order of its statements and the arguments it       *)
(* passes.                                                                 *)
(***************************************************************************)
Idle == "idle"

NextStepAsmBeforeConnections(p) ==
    CASE p = "root._setup_processors"           -> "root._setup_variables"
      [] p = "root._setup_variables"            -> "root._setup_variable_indices"
      [] p = "root._setup_variable_indices"     -> "assembler._setup_variables"
      [] p = "assembler._setup_variables"       -> "root._setup_connections"
      [] p = "root._setup_connections"          -> "root._setup_solvers"
      [] p = "root._setup_solvers"              -> "assembler._setup_connections"
      [] p = "assembler._setup_connections"     -> "assembler._setup_input_indices"
      [] p = "assembler._setup_input_indices"   -> "setup_vector"
      [] p = "setup_vector"                     -> "return self"
      [] OTHER                                  -> Idle

NextStepSkipsInputIndices(p) ==
    CASE p = "root._setup_processors"           -> "root._setup_variables"
      [] p = "root._setup_variables"            -> "root._setup_variable_indices"
      [] p = "root._setup_variable_indices"     -> "root._setup_connections"
      [] p = "root._setup_connections"          -> "root._setup_solvers"
      [] p = "root._setup_solvers"              -> "assembler._setup_variables"
      [] p = "assembler._setup_variables"       -> "assembler._setup_connections"
      [] p = "assembler._setup_connections"     -> "setup_vector"
      [] p = "setup_vector"                     -> "return self"
      [] OTHER                                  -> Idle

\* lines 72-98: the statement that follows statement p of setup()
NextStep(p) ==
    CASE p = "root._setup_processors"           -> "root._setup_variables"
      [] p = "root._setup_variables"            -> "root._setup_variable_indices"
      [] p = "root._setup_variable_indices"     -> "root._setup_connections"
      [] p = "root._setup_connections"          -> "root._setup_solvers"
      [] p = "root._setup_solvers"              -> "assembler._setup_variables"
      [] p = "assembler._setup_variables"       -> "assembler._setup_connections"
      [] p = "assembler._setup_connections"     -> "assembler._setup_input_indices"
      [] p = "assembler._setup_input_indices"   -> "setup_vector"
      [] p = "setup_vector"                     -> "return self"
      [] OTHER                                  -> Idle

PropagateSwallowed(raised, next) == next

\* setup() has no handler around its calls: an exception of a callee leaves
\* setup() at once
Propagate(raised, next) == IF raised THEN Idle ELSE next

\* line 72: the accumulator map, the depth and the process range of the root
GlobalDictArg == {}
DepthArg == 0
ProcRangeArg == <<0, comm.size>>

IndexCountersArgStale == [t \in Roles |-> root.allprocs_range[t][2]]

\* line 74
IndexCountersArg == [t \in Roles |-> 0]

SizesArgMyproc(r) == [t \in Roles |-> Len(r.myproc_names[t])]

\* lines 79-80
SizesArg(r) == [t \in Roles |-> Len(r.allprocs_names[t])]

(***************************************************************************)
(* Problem.setup_vector()                                                  *)
(***************************************************************************)
KeysWithoutResidual == <<"input", "output">>

\* line 114
VectorKeys == <<"input", "output", "residual">>

TypOfResidualIsInput(key) == "input"

\* lines 115-118
TypOf(key) == IF key = "residual" THEN "output" ELSE key

\* the Assembler phases that have run at least once
AsmPopulated == { p \in AsmPhases : asmCalls[p] > 0 }

\* lines 120-127: Vector(vec_name, comm, proc_range, ...), stored under key;
\* "built_on" remembers which Assembler phases had run when it was built
NewVector(vec_name, Vector, key) ==
    LET typ == TypOf(key)
    IN  [ key |-> key, vec_name |-> vec_name, cls |-> Vector, comm |-> comm,
          proc_range |-> root.proc_range,
          var_range |-> root.allprocs_range[typ],
          indices |-> root.myproc_indices[typ],
          names |-> root.myproc_names[typ],
          sizes |-> asm.variable_sizes[typ],
          set_indices |-> asm.variable_set_indices[typ],
          built_on |-> AsmPopulated ]


(***************************************************************************)
(* Problem.__init__: the state after construction.                         *)
(***************************************************************************)
CtorArgs ==
    { [comm |-> c, VectorClass |-> v] :
        c \in {NoComm} \cup RealComms("supplied"), v \in {None, "PetscVector"} }

MpiChoices ==
    {NoMpi} \cup { [available |-> TRUE, world |-> w] : w \in RealComms("COMM_WORLD") }

Init ==
    /\ decl \in Decls
    /\ ctor \in CtorArgs
    /\ mpi \in (IF ctor.comm = NoComm THEN MpiChoices ELSE {NoMpi})
    /\ comm = InitComm(ctor.comm, mpi)
    /\ asmComm = InitComm(ctor.comm, mpi)
    /\ VectorClass = InitVectorClass(ctor.VectorClass)
    /\ root = RootEmpty
    /\ asm = AsmEmpty
    /\ asmCalls = [p \in AsmPhases |-> 0]
    /\ rootVectors = [n \in VecNames |-> <<>>]
    /\ pc = Idle
    /\ op = "none"
    /\ vecArgs = [name |-> None, cls |-> DefaultVector]
    /\ vectors = <<>>
    /\ log = <<>>
    /\ outcome = "none"
    /\ nCalls = 0
    /\ nSetupsDone = 0
    /\ firstSetup = <<>>

ctorVars == <<decl, ctor, mpi, comm, asmComm, VectorClass>>

(***************************************************************************)
(* setup(), one action per statement.                                      *)
(***************************************************************************)
\* the driver calls setup(): lines 66-69
Setup ==
    /\ pc = Idle
    /\ nCalls < MaxCalls
    /\ nCalls' = nCalls + 1
    /\ op' = "setup"
    /\ pc' = "root._setup_processors"
    /\ log' = <<>>
    /\ outcome' = "running"
    /\ vectors' = <<>>
    /\ UNCHANGED <<ctorVars, root, asm, asmCalls, rootVectors, vecArgs,
                   nSetupsDone, firstSetup>>

\* line 72
RootSetupProcessors ==
    /\ pc = "root._setup_processors"
    /\ LET r == SystemSetupProcessors("", comm, GlobalDictArg, DepthArg, ProcRangeArg)
       IN  root' = [root EXCEPT !.path = r.path, !.depth = r.depth,
                                !.global_dict = r.global_dict,
                                !.proc_range = r.proc_range,
                                !.sub_ranges = r.sub_ranges]
    /\ log' = Append(log, pc)
    /\ pc' = NextStep(pc)
    /\ UNCHANGED <<ctorVars, asm, asmCalls, rootVectors, op, vecArgs, vectors,
                   outcome, nCalls, nSetupsDone, firstSetup>>

\* line 73
RootSetupVariables ==
    /\ pc = "root._setup_variables"
    /\ LET r == SystemSetupVariables(root.sub_ranges)
       IN  root' = [root EXCEPT !.allprocs_names = r.allprocs_names,
                                !.myproc_names = r.myproc_names,
                                !.myproc_metadata = r.myproc_metadata]
    /\ log' = Append(log, pc)
    /\ pc' = NextStep(pc)
    /\ UNCHANGED <<ctorVars, asm, asmCalls, rootVectors, op, vecArgs, vectors,
                   outcome, nCalls, nSetupsDone, firstSetup>>

\* line 74
RootSetupVariableIndices ==
    /\ pc = "root._setup_variable_indices"
    /\ LET r == SystemSetupVariableIndices(IndexCountersArg, root.allprocs_names,
                                           root.myproc_names)
       IN  root' = [root EXCEPT !.allprocs_range = r.allprocs_range,
                                !.myproc_indices = r.myproc_indices]
    /\ log' = Append(log, pc)
    /\ pc' = NextStep(pc)
    /\ UNCHANGED <<ctorVars, asm, asmCalls, rootVectors, op, vecArgs, vectors,
                   outcome, nCalls, nSetupsDone, firstSetup>>

\* line 75: connection resolution either records the resolved connections or
\* raises a configuration error
RootSetupConnections ==
    /\ pc = "root._setup_connections"
    /\ LET raised == ConnectionError(decl.conns, root.allprocs_names)
       IN  /\ root' = IF raised THEN root
                      ELSE [root EXCEPT !.connections_indices =
                                           SystemSetupConnections(decl.conns, root)]
           /\ pc' = Propagate(raised, NextStep(pc))
           /\ outcome' = IF raised THEN "error" ELSE outcome
    /\ log' = Append(log, pc)
    /\ UNCHANGED <<ctorVars, asm, asmCalls, rootVectors, op, vecArgs, vectors,
                   nCalls, nSetupsDone, firstSetup>>

\* line 76
RootSetupSolvers ==
    /\ pc = "root._setup_solvers"
    /\ log' = Append(log, pc)
    /\ pc' = NextStep(pc)
    /\ UNCHANGED <<ctorVars, root, asm, asmCalls, rootVectors, op, vecArgs, vectors,
                   outcome, nCalls, nSetupsDone, firstSetup>>

\* lines 79-83
AsmSetupVariables ==
    /\ pc = "assembler._setup_variables"
    /\ LET a == AssemblerSetupVariables(SizesArg(root), root.myproc_metadata,
                                        root.myproc_indices)
       IN  asm' = [asm EXCEPT !.nvars = a.nvars, !.local = a.local,
                              !.variable_sizes = a.variable_sizes,
                              !.variable_set_indices = a.variable_set_indices]
    /\ asmCalls' = [asmCalls EXCEPT !["_setup_variables"] = @ + 1]
    /\ log' = Append(log, pc)
    /\ pc' = NextStep(pc)
    /\ UNCHANGED <<ctorVars, root, rootVectors, op, vecArgs, vectors,
                   outcome, nCalls, nSetupsDone, firstSetup>>

\* lines 86-88
AsmSetupConnections ==
    /\ pc = "assembler._setup_connections"
    /\ asm' = [asm EXCEPT !.connections =
                 AssemblerSetupConnections(root.connections_indices, root.allprocs_names)]
    /\ asmCalls' = [asmCalls EXCEPT !["_setup_connections"] = @ + 1]
    /\ log' = Append(log, pc)
    /\ pc' = NextStep(pc)
    /\ UNCHANGED <<ctorVars, root, rootVectors, op, vecArgs, vectors,
                   outcome, nCalls, nSetupsDone, firstSetup>>

\* lines 91-93
AsmSetupInputIndices ==
    /\ pc = "assembler._setup_input_indices"
    /\ asm' = [asm EXCEPT !.input_indices =
                 AssemblerSetupInputIndices(asm, root.myproc_metadata["input"],
                                            root.myproc_indices["input"])]
    /\ asmCalls' = [asmCalls EXCEPT !["_setup_input_indices"] = @ + 1]
    /\ log' = Append(log, pc)
    /\ pc' = NextStep(pc)
    /\ UNCHANGED <<ctorVars, root, rootVectors, op, vecArgs, vectors,
                   outcome, nCalls, nSetupsDone, firstSetup>>

\* line 96, then lines 110-113 of the callee
SetupCallsSetupVector ==
    /\ pc = "setup_vector"
    /\ vecArgs' = [name |-> None, cls |-> VectorClass]
    /\ vectors' = <<>>
    /\ log' = Append(log, pc)
    /\ pc' = "Vector"
    /\ UNCHANGED <<ctorVars, root, asm, asmCalls, rootVectors, op,
                   outcome, nCalls, nSetupsDone, firstSetup>>

\* the schema a completed setup() leaves behind
Layout(vs) ==
    [ j \in 1..Len(vs) |->
        [ key |-> vs[j].key, proc_range |-> vs[j].proc_range,
          var_range |-> vs[j].var_range, indices |-> vs[j].indices,
          names |-> vs[j].names, sizes |-> vs[j].sizes,
          set_indices |-> vs[j].set_indices ] ]

Schema == [ root |-> root, asm |-> asm, layout |-> Layout(rootVectors[None]) ]

\* line 98
SetupReturn ==
    /\ pc = "return self"
    /\ pc' = Idle
    /\ outcome' = "ok"
    /\ nSetupsDone' = nSetupsDone + 1
    /\ firstSetup' = IF firstSetup = <<>> THEN <<Schema>> ELSE firstSetup
    /\ UNCHANGED <<ctorVars, root, asm, asmCalls, rootVectors, op, vecArgs, vectors,
                   log, nCalls>>

(***************************************************************************)
(* setup_vector(vec_name, Vector)                                          *)
(***************************************************************************)
\* the driver calls setup_vector: lines 110-113
SetupVector(vec_name, Vector) ==
    /\ pc = Idle
    /\ nCalls < MaxCalls
    /\ nCalls' = nCalls + 1
    /\ op' = "setup_vector"
    /\ vecArgs' = [name |-> vec_name, cls |-> Vector]
    /\ vectors' = <<>>
    /\ log' = <<>>
    /\ outcome' = "running"
    /\ pc' = "Vector"
    /\ UNCHANGED <<ctorVars, root, asm, asmCalls, rootVectors, nSetupsDone, firstSetup>>

\* lines 114-127: one turn of the loop
BuildVector ==
    /\ pc = "Vector"
    /\ Len(vectors) < Len(VectorKeys)
    /\ LET key == VectorKeys[Len(vectors) + 1]
       IN  /\ vectors' = Append(vectors, NewVector(vecArgs.name, vecArgs.cls, key))
           /\ log' = Append(log, "Vector")
    /\ pc' = IF Len(vectors') = Len(VectorKeys) THEN "root._setup_vector" ELSE pc
    /\ UNCHANGED <<ctorVars, root, asm, asmCalls, rootVectors, op, vecArgs,
                   outcome, nCalls, nSetupsDone, firstSetup>>

\* line 129, and the return to the caller
RootSetupVector ==
    /\ pc = "root._setup_vector"
    /\ rootVectors' = [rootVectors EXCEPT ![vecArgs.name] = vectors]
    /\ log' = Append(log, pc)
    /\ pc' = IF op = "setup" THEN NextStep("setup_vector") ELSE Idle
    /\ outcome' = IF op = "setup" THEN outcome ELSE "ok"
    /\ UNCHANGED <<ctorVars, root, asm, asmCalls, op, vecArgs, vectors,
                   nCalls, nSetupsDone, firstSetup>>

Next ==
    \/ Setup
    \/ RootSetupProcessors
    \/ RootSetupVariables
    \/ RootSetupVariableIndices
    \/ RootSetupConnections
    \/ RootSetupSolvers
    \/ AsmSetupVariables
    \/ AsmSetupConnections
    \/ AsmSetupInputIndices
    \/ SetupCallsSetupVector
    \/ SetupReturn
    \/ \E n \in VecNames, V \in VectorClasses : SetupVector(n, V)
    \/ BuildVector
    \/ RootSetupVector

Spec == Init /\ [][Next]_vars


(***************************************************************************)
(* Properties.                                                             *)
(***************************************************************************)
IsPrefix(a, b) == Len(a) <= Len(b) /\ a = SubSeq(b, 1, Len(a))

Count(seq, e) == Cardinality({ j \in 1..Len(seq) : seq[j] = e })

\* every Vector that exists: the ones of the running (or last) setup_vector call
\* and the ones the root holds
VectorSets == {vectors} \cup { rootVectors[n] : n \in VecNames }

AllVectors == UNION { Range(vs) : vs \in VectorSets }

SetupOrder ==
    << "root._setup_processors", "root._setup_variables",
       "root._setup_variable_indices", "root._setup_connections",
       "assembler._setup_variables", "assembler._setup_connections",
       "assembler._setup_input_indices", "setup_vector" >>

PhasesRun ==
    LET Claimed(e) == e \in Range(SetupOrder) IN SelectSeq(log, Claimed)

\* C1: within a setup() call the eight phases run in the stated order, each at
\* most once, the phase that runs next is the successor of the last one that
\* ran, and a setup() that returns has run each of them exactly once.
C1_PhasesInOrder ==
    op = "setup" =>
        /\ IsPrefix(PhasesRun, SetupOrder)
        /\ pc \in Range(SetupOrder) => pc = SetupOrder[Len(PhasesRun) + 1]
        /\ pc \in {"Vector", "root._setup_vector", "return self"} => PhasesRun = SetupOrder
        /\ outcome = "ok" => PhasesRun = SetupOrder

C1_Witness ==
    op = "setup" /\ pc = Idle /\ outcome = "ok" /\ PhasesRun = SetupOrder

AsmEvents ==
    { "assembler._setup_variables", "assembler._setup_connections",
      "assembler._setup_input_indices" }

\* C2: when connection resolution finds a configuration error, setup() ends
\* there with an error: no Assembler phase runs in that call, no Vector is
\* built and no vector set is handed to the root.
C2_ConnectionErrorStopsSetup ==
    ( /\ op = "setup"
      /\ Count(log, "root._setup_connections") > 0
      /\ ConnectionError(decl.conns, root.allprocs_names) ) =>
        /\ pc = Idle
        /\ outcome = "error"
        /\ vectors = <<>>
        /\ Range(log) \cap (AsmEvents \cup {"setup_vector", "Vector", "root._setup_vector"}) = {}

C2_Witness ==
    /\ op = "setup" /\ outcome = "error" /\ pc = Idle
    /\ <<Z, Y(1)>> \in decl.conns
    /\ log[Len(log)] = "root._setup_connections"

\* C3: every Vector is built when all three Assembler phases have run.
C3_VectorOnlyAfterAssembler ==
    \A v \in AllVectors : v.built_on = AsmPhases

\* C4 (as claimed): once a setup() has completed, no Assembler phase is invoked
\* and the Assembler's state does not change.
C4_WriteOnce ==
    [][ nSetupsDone >= 1 => (asmCalls' = asmCalls /\ asm' = asm) ]_vars

\* C4 (amended): the Assembler is the one built at construction and is never
\* replaced; setup_vector never invokes a populating phase; every setup() call
\* invokes each populating phase at most once, and a setup() that returns has
\* invoked each exactly once, on every call and not only on the first.
C4_RepopulatedBySetupOnly ==
    /\ asmComm = InitComm(ctor.comm, mpi)
    /\ \A p \in AsmPhases : asmCalls[p] <= nCalls
    /\ op = "setup_vector" => Range(log) \cap AsmEvents = {}
    /\ op = "setup" => \A e \in AsmEvents : Count(log, e) <= 1
    /\ (op = "setup" /\ outcome = "ok") => \A e \in AsmEvents : Count(log, e) = 1
    /\ pc = Idle => \A p \in AsmPhases : asmCalls[p] = nSetupsDone

C4_Witness ==
    /\ nSetupsDone = 2 /\ pc = Idle
    /\ \A p \in AsmPhases : asmCalls[p] = 2

\* C5: after any completed setup() the schema (root indices, connections,
\* Assembler state, layout of the default vector set) is the one the first
\* completed setup() produced, and the root was given the empty accumulator
\* map, depth 0, the full process range and index counters starting at 0.
C5_SetupIdempotent ==
    (pc = Idle /\ nSetupsDone >= 1) =>
        /\ Schema = firstSetup[1]
        /\ root.global_dict = {}
        /\ root.depth = 0
        /\ root.proc_range = <<0, comm.size>>
        /\ \A t \in Roles : root.allprocs_range[t][1] = 0

C5_Witness ==
    /\ pc = Idle /\ nSetupsDone >= 2 /\ op = "setup"
    /\ decl.nsub >= 2 /\ decl.conns # {}
    /\ Len(rootVectors[None]) = 3

LayoutOf(v) ==
    [ var_range |-> v.var_range, indices |-> v.indices, names |-> v.names,
      sizes |-> v.sizes, set_indices |-> v.set_indices ]

RoleData(t) ==
    [ var_range |-> root.allprocs_range[t], indices |-> root.myproc_indices[t],
      names |-> root.myproc_names[t], sizes |-> asm.variable_sizes[t],
      set_indices |-> asm.variable_set_indices[t] ]

\* C6: in every vector set the residual Vector has the layout of the output
\* Vector, and in the set being built the input Vector is built from the
\* input-role data and the other two from the output-role data.
C6_ResidualSharesOutputLayout ==
    /\ \A vs \in VectorSets : \A i, j \in 1..Len(vs) :
          (vs[i].key = "output" /\ vs[j].key = "residual") =>
              LayoutOf(vs[i]) = LayoutOf(vs[j])
    /\ \A j \in 1..Len(vectors) :
          LayoutOf(vectors[j]) =
              RoleData(IF vectors[j].key = "input" THEN "input" ELSE "output")

C6_Witness ==
    /\ Len(rootVectors[None]) = 3
    /\ rootVectors[None][3].key = "residual"
    /\ LayoutOf(rootVectors[None][1]) # LayoutOf(rootVectors[None][2])
    /\ LayoutOf(rootVectors[None][3]) = LayoutOf(rootVectors[None][2])
    /\ rootVectors[None][2].sizes # <<>>

RangeLen(r) == r[2] - r[1]

Partitions(parts, whole) ==
    LET k == Len(parts)
    IN  /\ parts[1][1] = whole[1]
        /\ parts[k][2] = whole[2]
        /\ \A i \in 1..k : parts[i][1] <= parts[i][2]
        /\ \A i \in 1..(k - 1) : parts[i][2] = parts[i + 1][1]
        /\ \A i, j \in 1..k : RangeLen(parts[i]) - RangeLen(parts[j]) <= 1

\* C7: the sub-ranges a splittable root hands to its k subsystems partition
\* the root range [0, comm.size) with no gap and no overlap, their lengths
\* differ by at most 1, and with fewer processes than subsystems some
\* sub-range is empty while setup() still succeeds; the same holds one level
\* down, for the split of each subsystem's range among k of its own.
C7_SubRangesPartition ==
    /\ (decl.parallel /\ root.sub_ranges # <<>>) =>
          /\ root.proc_range = <<0, comm.size>>
          /\ Len(root.sub_ranges) = decl.nsub
          /\ Partitions(root.sub_ranges, <<0, comm.size>>)
          /\ comm.size < decl.nsub =>
                \E i \in 1..decl.nsub : RangeLen(root.sub_ranges[i]) = 0
          /\ (op = "setup" /\ pc = Idle
                /\ ~ConnectionError(decl.conns, root.allprocs_names)) => outcome = "ok"
    /\ pc = "root._setup_variables" =>
          \A j \in 1..Len(root.sub_ranges), k \in 1..MaxChildren :
              Partitions([i \in 1..k |-> SubRange(root.sub_ranges[j], k, i)],
                         root.sub_ranges[j])

C7_Witness ==
    /\ decl.parallel /\ comm.size < decl.nsub /\ comm.size > 1
    /\ nSetupsDone >= 1 /\ pc = Idle /\ outcome = "ok"
    /\ \E i \in 1..decl.nsub : RangeLen(root.sub_ranges[i]) = 0
    /\ \E i \in 1..decl.nsub : RangeLen(root.sub_ranges[i]) = 1

\* C8: a setup_vector call builds one Vector per role, in the order input,
\* output, residual, each tagged with the call's vec_name and built by the
\* call's Vector class, and hands the set to the root once, after the third
\* Vector exists; setup() makes this call once, with vec_name None and the
\* Problem's Vector class.
C8_OneVectorPerRoleOneHandoff ==
    /\ Count(log, "Vector") <= 3
    /\ Count(log, "root._setup_vector") <= 1
    /\ Count(log, "root._setup_vector") = 1 =>
          /\ Count(log, "Vector") = 3
          /\ log[Len(log)] = "root._setup_vector"
          /\ rootVectors[vecArgs.name] = vectors
    /\ (pc = Idle /\ outcome = "ok") => Count(log, "root._setup_vector") = 1
    /\ pc = "root._setup_vector" =>
          /\ [j \in 1..Len(vectors) |-> vectors[j].key] = <<"input", "output", "residual">>
          /\ \A j \in 1..Len(vectors) :
                vectors[j].vec_name = vecArgs.name /\ vectors[j].cls = vecArgs.cls
    /\ \A n \in VecNames : \A j \in 1..Len(rootVectors[n]) :
          /\ rootVectors[n][j].vec_name = n
          /\ Len(rootVectors[n]) = 3
          /\ rootVectors[n][j].key = <<"input", "output", "residual">>[j]
    /\ (op = "setup" /\ vectors # <<>>) =>
          /\ vecArgs = [name |-> None, cls |-> InitVectorClass(ctor.VectorClass)]
          /\ Count(log, "setup_vector") = 1

C8_Witness ==
    /\ op = "setup" /\ pc = Idle /\ outcome = "ok"
    /\ Len(rootVectors["linear"]) = 3
    /\ Len(rootVectors[None]) = 3
    /\ rootVectors[None][1].cls = "PetscVector"
    /\ rootVectors["linear"][1].cls = DefaultVector

\* C9: without a supplied communicator and without MPI the Problem's comm has
\* rank 0 and size 1; the comm is the one chosen at construction, the
\* Assembler and every Vector hold the same one, and once the root has been
\* given its range that range is [0, size) and contains the rank.
C9_SingleWorkerComm ==
    /\ (ctor.comm = NoComm /\ ~mpi.available) =>
          comm.kind = "FakeComm" /\ comm.rank = 0 /\ comm.size = 1
    /\ 0 <= comm.rank /\ comm.rank < comm.size
    /\ comm = InitComm(ctor.comm, mpi)
    /\ asmComm = comm
    /\ \A v \in AllVectors : v.comm = comm
    /\ root.sub_ranges # <<>> =>
          root.proc_range = <<0, comm.size>> /\ InRange(comm.rank, root.proc_range)

C9_Witness ==
    /\ ctor.comm = NoComm /\ ~mpi.available
    /\ nSetupsDone >= 1 /\ pc = Idle
    /\ Len(rootVectors[None]) = 3 /\ Len(rootVectors["linear"]) = 3

ResidentSubsystems ==
    { i \in 1..decl.nsub : InRange(comm.rank, root.sub_ranges[i]) }

\* C10: the per-role count the Assembler's sizing phase is given is the number
\* of variables of that role in the whole tree, whatever the rank of the
\* process, while the metadata and indices given with it hold only the
\* variables resident on the process.
C10_SizesCountAllProcs ==
    asmCalls["_setup_variables"] > 0 =>
        \A t \in Roles :
            /\ asm.nvars[t] = Len(AllNames(t))
            /\ Len(asm.local.metadata[t]) = Cardinality(ResidentSubsystems)
            /\ Len(asm.local.indices[t]) = Cardinality(ResidentSubsystems)
            /\ asm.local.metadata[t] = root.myproc_metadata[t]

C10_Witness ==
    /\ asmCalls["_setup_variables"] > 0
    /\ comm.size > 1 /\ comm.rank > 0
    /\ Cardinality(ResidentSubsystems) < asm.nvars["output"]
    /\ Cardinality(ResidentSubsystems) > 0

====
